---- MODULE Spec2Model ----
(***************************************************************************)
(* pssh: a local directory is pushed to a remote host over ssh while an    *)
(* interactive shell runs on the same connection.  The model follows the   *)
(* newest client in src/main.go (package client, lines 294-680): New,      *)
(* StartShell, the initial walk, the event loop, syncLocalFileToRemote,    *)
(* ensureRemoteDirectory, copy and SubscribeDir.                           *)
(*                                                                         *)
(* Paths are sequences of one-character strings, so that the string        *)
(* operations of the code (HasPrefix, TrimPrefix, Clean, Join, Dir, Base)  *)
(* are computed and not assumed.                                           *)
(***************************************************************************)
EXTENDS Integers, Sequences, FiniteSets, TLC

\* ------------------------------------------------------------------ bounds
\* Largest size in bytes of a local file.
MaxSize == 1
\* Number of changes the user makes to the local tree in one behaviour.
MaxChanges == 1
\* Number of remote actions (session open, mkdir, receiver) that fail.
MaxFaults == 1

\* ------------------------------------------------------- strings and paths
\* F applied to the value of x, with x evaluated once.
Eval(F(_), x) == CHOOSE r \in {F(q) : q \in {x}} : TRUE

\* Byte order of the characters used in paths ('.' < '/' < letters).
CharOrder == <<".", "/", "a", "b", "c", "d", "g", "h", "n", "r", "s", "t", "w", "x">>

CharRank(ch) == CHOOSE i \in 1..Len(CharOrder) : CharOrder[i] = ch

\* Go string comparison s < t (used by the sorted directory listing of Walk).
RECURSIVE StrLess(_, _)
StrLess(s, t) ==
    IF t = <<>> THEN FALSE
    ELSE IF s = <<>> THEN TRUE
    ELSE IF s[1] = t[1] THEN StrLess(Tail(s), Tail(t))
    ELSE CharRank(s[1]) < CharRank(t[1])

\* strings.HasPrefix
HasPrefix(s, pre) ==
    /\ Len(pre) <= Len(s)
    /\ SubSeq(s, 1, Len(pre)) = pre

\* strings.TrimPrefix
TrimPrefix(s, pre) ==
    IF HasPrefix(s, pre) THEN SubSeq(s, Len(pre) + 1, Len(s)) ELSE s

\* The elements of a path between slashes, empty elements dropped.
RECURSIVE SplitFrom(_, _, _)
SplitFrom(p, i, cur) ==
    IF i > Len(p) THEN (IF cur = <<>> THEN <<>> ELSE <<cur>>)
    ELSE IF p[i] = "/"
         THEN (IF cur = <<>> THEN <<>> ELSE <<cur>>) \o SplitFrom(p, i + 1, <<>>)
         ELSE SplitFrom(p, i + 1, Append(cur, p[i]))

Split(p) == SplitFrom(p, 1, <<>>)

IsAbs(p) == Len(p) > 0 /\ p[1] = "/"

\* The element stack of Clean: "." dropped, ".." cancels the element before it,
\* is dropped at the root and is kept at the front of a relative path.
RECURSIVE CleanStack(_, _, _)
CleanStack(elems, stack, rooted) ==
    IF elems = <<>> THEN stack
    ELSE LET e == Head(elems)
             rest == Tail(elems)
         IN IF e = <<".">> THEN CleanStack(rest, stack, rooted)
            ELSE IF e = <<".", ".">>
                 THEN IF stack # <<>> /\ stack[Len(stack)] # <<".", ".">>
                      THEN CleanStack(rest, SubSeq(stack, 1, Len(stack) - 1), rooted)
                      ELSE IF rooted THEN CleanStack(rest, stack, rooted)
                      ELSE CleanStack(rest, Append(stack, e), rooted)
                 ELSE CleanStack(rest, Append(stack, e), rooted)

RECURSIVE JoinElems(_)
JoinElems(elems) ==
    IF elems = <<>> THEN <<>>
    ELSE IF Len(elems) = 1 THEN elems[1]
    ELSE elems[1] \o <<"/">> \o JoinElems(Tail(elems))

CleanBody(elems) == JoinElems(elems)

CleanOf(p) ==
    LET rooted == IsAbs(p)
        body == Eval(CleanBody, CleanStack(Eval(Split, p), <<>>, rooted))
    IN IF rooted THEN <<"/">> \o body
       ELSE IF body = <<>> THEN <<".">> ELSE body

\* filepath.Clean / path.Clean
Clean(p) == Eval(CleanOf, p)

JoinOf(ab) ==
    LET a == ab[1]
        b == ab[2]
    IN IF a = <<>> /\ b = <<>> THEN <<>>
       ELSE IF a = <<>> THEN Clean(b)
       ELSE IF b = <<>> THEN Clean(a)
       ELSE Clean(a \o <<"/">> \o b)

\* filepath.Join of two elements: empty elements are ignored, the result is
\* cleaned, and joining nothing gives the empty string.
Join(a, b) == Eval(JoinOf, <<a, b>>)

\* Index of the last slash of p, 0 when there is none.
RECURSIVE LastSlash(_, _)
LastSlash(p, i) ==
    IF i = 0 THEN 0 ELSE IF p[i] = "/" THEN i ELSE LastSlash(p, i - 1)

DirOf(p) == Clean(SubSeq(p, 1, LastSlash(p, Len(p))))

\* path.Dir / filepath.Dir: all but the last element, cleaned.
Dir(p) == Eval(DirOf, p)

RECURSIVE StripTrailingSlashes(_)
StripTrailingSlashes(p) ==
    IF p # <<>> /\ p[Len(p)] = "/"
    THEN StripTrailingSlashes(SubSeq(p, 1, Len(p) - 1))
    ELSE p

LastElem(q) ==
    IF q = <<>> THEN <<"/">> ELSE SubSeq(q, LastSlash(q, Len(q)) + 1, Len(q))

BaseOf(p) ==
    IF p = <<>> THEN <<".">> ELSE Eval(LastElem, StripTrailingSlashes(p))

\* path.Base: the last element; "." for the empty path, "/" for all slashes.
Base(p) == Eval(BaseOf, p)

\* The working directory of the process.
Cwd == <<"/", "w", "/", "c">>

\* filepath.Abs
Abs(p) == IF IsAbs(p) THEN Clean(p) ELSE Join(Cwd, p)

\* ------------------------------------------------------- the local tree
\* Entries of the local tree, each the sequence of its names below the root:
\* the hidden directory .g with its file x, the directory s with its file b,
\* the file a, and what the user may add: the file n (the new name of a), the
\* hidden file .h and the directory t.
StaticDirs == { << <<".", "g">> >>, << <<"s">> >> }

FileX == << <<".", "g">>, <<"x">> >>
FileB == << <<"s">>, <<"b">> >>
FileA == << <<"a">> >>
FileN == << <<"n">> >>
FileH == << <<".", "h">> >>
DirT == << <<"t">> >>

StaticFiles == {FileX, FileB}

Mutable == {FileA, FileN, FileH, DirT}

AllEntries == StaticDirs \cup StaticFiles \cup Mutable

\* The files whose size the user changes.
SizedFiles == {FileA, FileB, FileN, FileH}

\* The entry as a slash-separated string.
RelStr(e) == JoinElems(e)

\* Kind of entry e when the changeable entries are as k says.
KindOf(e, k) ==
    IF e = <<>> \/ e \in StaticDirs THEN "dir"
    ELSE IF e \in StaticFiles THEN "file"
    ELSE IF e \in Mutable THEN k[e]
    ELSE "none"

\* An entry is hidden when one of its names begins with a dot.
IsHidden(e) == \E i \in 1..Len(e) : e[i][1] = "."

\* The ways the local root is given on the command line (flag -local, whose
\* default is "./"), each with the directory of the file system that holds
\* the tree: the directory itself in four forms, and the regular file s/b of
\* the tree under /w/d.
RootForms ==
    { [dir |-> <<".">>, root |-> Cwd],
      [dir |-> <<".", "/">>, root |-> Cwd],
      [dir |-> <<".", ".", "/", "d">>, root |-> <<"/", "w", "/", "d">>],
      [dir |-> <<"/", "w", "/", "d">>, root |-> <<"/", "w", "/", "d">>],
      [dir |-> <<"/", "w", "/", "d", "/", "s", "/", "b">>,
       root |-> <<"/", "w", "/", "d">>] }

\* The remote directory of the address string (ssha.Destination()).
RemoteDir == <<"/", "r">>

\* os.ReadDir order: the existing children of rel, sorted by name.
Children(rel, k) ==
    { e \in AllEntries : /\ Len(e) = Len(rel) + 1
                         /\ SubSeq(e, 1, Len(rel)) = rel
                         /\ KindOf(e, k) # "none" }

RECURSIVE SortEntries(_)
SortEntries(S) ==
    IF S = {} THEN <<>>
    ELSE CHOOSE r \in
            { <<m>> \o SortEntries(S \ {m}) :
                m \in {e \in S : \A o \in S \ {e} : StrLess(e[Len(e)], o[Len(o)])} } :
            TRUE

\* filepath.Walk: the callback sees a directory, then its children in sorted
\* order, each under the name Join(path of the directory, name).
RECURSIVE WalkFrom(_, _, _)
RECURSIVE WalkList(_, _, _)
WalkFrom(path, rel, k) ==
    IF KindOf(rel, k) # "dir"
    THEN << [path |-> path, dir |-> FALSE] >>
    ELSE << [path |-> path, dir |-> TRUE] >>
         \o CHOOSE r \in {WalkList(path, kids, k) :
                              kids \in {SortEntries(Children(rel, k))}} : TRUE

WalkList(path, kids, k) ==
    IF kids = <<>> THEN <<>>
    ELSE CHOOSE r \in
            { WalkFrom(sub, Head(kids), k) \o WalkList(path, Tail(kids), k) :
                sub \in {Join(path, Head(kids)[Len(Head(kids))])} } : TRUE

\* The callback of the initial walk: hidden files and directories are left out.
WalkSkips(v) == HasPrefix(v.path, <<".">>) \/ v.dir

\* The files collected by the initial walk of root dir, which names entry at.
PathsOf(vs) == [i \in 1..Len(vs) |-> vs[i].path]

Kept(vs) == PathsOf(SelectSeq(vs, LAMBDA v : ~WalkSkips(v)))

WalkFiles(dir, at, k) == Eval(Kept, WalkFrom(dir, at, k))

\* The remote path of the initial sync for walk path f.
StripSlash(trimmed) ==
    Join(RemoteDir, IF trimmed[1] = "/" THEN Tail(trimmed) ELSE trimmed)

InitialRemotePath(f, dir) == Eval(StripSlash, TrimPrefix(f, Clean(dir)))

\* remoteUpdateFile trimming c.localDir as given, not its absolute form.
SteadyRemotePathNoAbs(localPath, dir) ==
    Join(RemoteDir, TrimPrefix(localPath, dir))

\* The remote path of remoteUpdateFile for the path of a watch event.
SteadyRemotePath(localPath, dir) ==
    Join(RemoteDir, TrimPrefix(localPath, Abs(dir)))

\* ------------------------------------------------------------------ state
\* Capacity of the events channel made by New.
EventsCap == 1

VARIABLES
    localDir,         \* c.localDir, as given on the command line
    fsRoot,           \* the absolute directory localDir names
    skipInitialSync,  \* the argument of StartShell
    kind,             \* local tree: kind of each entry the user adds or removes
    size,             \* local tree: size in bytes of each file the user writes
    changes,          \* number of changes the user has made
    subscribed,       \* notify.Watch has been set up on the local root
    osq,              \* events the watcher has seen and not yet dispatched
    events,           \* c.events, a channel of capacity EventsCap
    closed,           \* c.events has been closed
    dropped,          \* events the watcher could not send and dropped
    pc,               \* position of the goroutine running StartShell
    files,            \* walk paths still to be synced by the initial sync
    cur,              \* the sync in progress: its event and its two paths
    declared,         \* sz of the push in progress (stat.Size())
    wpc,              \* position of the writer goroutine of copy
    stream,           \* what the writer has written to the session's stdin
    sess,             \* the session of the push: started, stdin at EOF, receiver
    nopen,            \* number of sessions of sync actions that are open
    rfiles,           \* remote tree: the files
    rdirs,            \* remote tree: the directories made by mkdir -p
    faults,           \* number of remote actions that have failed
    done,             \* the actions the consumer has completed
    last              \* the action the consumer completed last

config == <<localDir, fsRoot, skipInitialSync>>
tree == <<kind, size, changes>>
watch == <<subscribed, osq, events, closed, dropped>>
consumer == <<pc, files, cur>>
pushv == <<declared, wpc, stream, sess, nopen>>
remote == <<rfiles, rdirs, faults>>
history == <<done, last>>
vars == <<config, tree, watch, consumer, pushv, remote, history>>

\* The absolute path of entry e in the file system.
FsPath(e) == IF e = <<>> THEN fsRoot ELSE fsRoot \o <<"/">> \o RelStr(e)

\* The entry of the tree c.localDir names: the top of the tree, or a file.
RootEntry == CHOOSE e \in AllEntries \cup {<<>>} : FsPath(e) = Abs(localDir)

\* What os.Open and Stat find at absolute path p: "none", "file" or "dir".
KindAt(p, k) ==
    IF \E e \in AllEntries \cup {<<>>} : FsPath(e) = p /\ KindOf(e, k) # "none"
    THEN KindOf(CHOOSE e \in AllEntries \cup {<<>>} : FsPath(e) = p, k)
    ELSE "none"

\* The size Stat reports for the open file at p, which is also the number of
\* bytes a read to its end returns.
SizeAt(p, sz) ==
    LET e == CHOOSE e \in AllEntries \cup {<<>>} : FsPath(e) = p
    IN IF e \in SizedFiles THEN sz[e] ELSE MaxSize

NoCur == [phase |-> "none", op |-> "none", local |-> <<>>, remote |-> <<>>]
NoStream == [hdr |-> 0, data |-> 0, nul |-> 0]
NoSess == [started |-> FALSE, eof |-> FALSE, rx |-> "none", status |-> 0, runs |-> 0]
NoEntry == [phase |-> "none", op |-> "none", local |-> <<>>, remote |-> <<>>,
            res |-> "none", sz |-> 0, wrote |-> NoStream, afterFail |-> FALSE,
            logged |-> FALSE]

Init ==
    /\ \E f \in RootForms : localDir = f.dir /\ fsRoot = f.root
    /\ skipInitialSync \in BOOLEAN
    /\ kind = [e \in Mutable |-> IF e = FileA THEN "file" ELSE "none"]
    /\ size = [e \in SizedFiles |-> IF e \in {FileA, FileB} THEN MaxSize ELSE 0]
    /\ changes = 0
    /\ subscribed = FALSE
    /\ osq = <<>>
    /\ events = <<>>
    /\ closed = FALSE
    /\ dropped = {}
    /\ pc = "subscribe"
    /\ files = <<>>
    /\ cur = NoCur
    /\ declared = 0
    /\ wpc = "idle"
    /\ stream = NoStream
    /\ sess = NoSess
    /\ nopen = 0
    /\ rfiles = {}
    /\ rdirs = {}
    /\ faults = 0
    /\ done = {}
    /\ last = NoEntry

\* ------------------------------------------------- the user and the watcher
Ev(op, e) == [op |-> op, path |-> FsPath(e)]

\* notify sends without blocking: an event that finds the channel full is
\* dropped.
WatcherSend(q, ev) == IF Len(q) < EventsCap THEN Append(q, ev) ELSE q

\* The watcher sees the events of a change: the first is dispatched at once,
\* the others wait their turn.  Nothing can be sent on a closed channel.
Emit(evs) ==
    IF closed
    THEN osq' = evs /\ UNCHANGED <<events, dropped>>
    ELSE /\ events' = WatcherSend(events, Head(evs))
         /\ dropped' = IF events' = events THEN dropped \cup {Head(evs)} ELSE dropped
         /\ osq' = Tail(evs)

\* The user changes the tree once the watch is set up (what was changed
\* before is the tree the program starts with).  The changes are those seen
\* by a watch on a directory: a root that is a regular file is left alone.
CanChange == subscribed /\ changes < MaxChanges /\ osq = <<>> /\ RootEntry = <<>>

UserCreate ==
    /\ CanChange
    /\ kind[FileH] = "none"
    /\ kind' = [kind EXCEPT ![FileH] = "file"]
    /\ size' = [size EXCEPT ![FileH] = MaxSize]
    /\ Emit(<<Ev("Create", FileH)>>)
    /\ changes' = changes + 1
    /\ UNCHANGED <<config, subscribed, closed, consumer, pushv, remote, history>>

UserMkdir ==
    /\ CanChange
    /\ kind[DirT] = "none"
    /\ kind' = [kind EXCEPT ![DirT] = "dir"]
    /\ Emit(<<Ev("Create", DirT)>>)
    /\ changes' = changes + 1
    /\ UNCHANGED <<config, size, subscribed, closed, consumer, pushv, remote, history>>

UserWrite ==
    /\ CanChange
    /\ \E e \in {FileA, FileB} : \E n \in 0..MaxSize :
          /\ KindOf(e, kind) = "file"
          /\ n # size[e]
          /\ size' = [size EXCEPT ![e] = n]
          /\ Emit(<<Ev("Write", e)>>)
    /\ changes' = changes + 1
    /\ UNCHANGED <<config, kind, subscribed, closed, consumer, pushv, remote, history>>

UserRemove ==
    /\ CanChange
    /\ kind[FileA] = "file"
    /\ kind' = [kind EXCEPT ![FileA] = "none"]
    /\ Emit(<<Ev("Remove", FileA)>>)
    /\ changes' = changes + 1
    /\ UNCHANGED <<config, size, subscribed, closed, consumer, pushv, remote, history>>

\* A rename of a to n is reported as two Rename events, one for each name, or
\* as a Remove of the old name and a Create of the new one.
UserRename ==
    /\ CanChange
    /\ kind[FileA] = "file" /\ kind[FileN] = "none"
    /\ kind' = [kind EXCEPT ![FileA] = "none", ![FileN] = "file"]
    /\ size' = [size EXCEPT ![FileN] = size[FileA]]
    /\ \/ Emit(<<Ev("Rename", FileA), Ev("Rename", FileN)>>)
       \/ Emit(<<Ev("Remove", FileA), Ev("Create", FileN)>>)
    /\ changes' = changes + 1
    /\ UNCHANGED <<config, subscribed, closed, consumer, pushv, remote, history>>

WatcherDispatch ==
    /\ osq # <<>>
    /\ ~closed
    /\ events' = WatcherSend(events, Head(osq))
    /\ dropped' = IF events' = events THEN dropped \cup {Head(osq)} ELSE dropped
    /\ osq' = Tail(osq)
    /\ UNCHANGED <<config, tree, subscribed, closed, consumer, pushv, remote, history>>

\* ------------------------------------------------------- the process ends
\* A header that names the whole destination path.
ReceiverTargetFullName(dstpath) == Join(Dir(dstpath), dstpath)

\* The file the receiver "scp -qt dirp" writes for a header naming file.
ReceiverTarget(dstpath) == Join(Dir(dstpath), Base(dstpath))

\* The remote files once the receiver has read stream st: the header makes
\* it create (or truncate) the target, unless the target is a directory.
Received(rf, st, target) ==
    IF st.hdr = 1 /\ target \notin rdirs THEN rf \cup {target} ELSE rf

\* The positions at which the process is gone.
Dead == {"exited", "panic", "closepanic", "sendpanic"}

Alive == pc \notin Dead

\* The process ends at position how: its goroutines, its channel, its watch
\* and its sessions are gone; a receiver still running has its input ended.
ProcessEnds(how) ==
    /\ pc' = how
    /\ subscribed' = FALSE
    /\ osq' = <<>>
    /\ events' = <<>>
    /\ files' = <<>>
    /\ cur' = NoCur
    /\ declared' = 0
    /\ wpc' = "idle"
    /\ stream' = NoStream
    /\ sess' = NoSess
    /\ nopen' = 0
    /\ rfiles' = IF sess.rx = "running"
                 THEN Received(rfiles, stream, ReceiverTarget(cur.remote))
                 ELSE rfiles
    /\ UNCHANGED <<config, tree, closed, dropped, rdirs, faults, history>>

\* ------------------------------------------------------ the consumer loop
\* StartShell returning the error of a failed sync.
ResumeAbort(phase, res) ==
    IF res # "ok" THEN "returned" ELSE IF phase = "initial" THEN "next" ELSE "loop"

\* Where StartShell goes on after a sync that ended with result res: the
\* result of syncLocalFileToRemote and of the handlers is not looked at.
Resume(phase, res) == IF phase = "initial" THEN "next" ELSE "loop"

\* Whether StartShell prints the error res an action returned: the calls of
\* syncLocalFileToRemote and of the handlers are statements, their result is
\* dropped, and c.status has printed the paths before the action was tried.
ErrorLogged(res) == FALSE

\* What is kept of a completed action: the event, the two paths, the result,
\* the size declared and the bytes written if it came to a push, and whether
\* an earlier action had failed.
LogEntry(c, res) ==
    [phase |-> c.phase, op |-> c.op, local |-> c.local, remote |-> c.remote,
     res |-> res,
     sz |-> IF res \in {"ok", "push"} THEN declared ELSE 0,
     wrote |-> IF res \in {"ok", "push"} THEN stream ELSE NoStream,
     afterFail |-> \E d \in done : d.res \notin {"ok", "notimpl"},
     logged |-> ErrorLogged(res)]

Record(c, res) ==
    /\ done' = done \cup {LogEntry(c, res)}
    /\ last' = LogEntry(c, res)

\* The sync in progress ends with result res.
Finish(res) ==
    /\ Record(cur, res)
    /\ pc' = Resume(cur.phase, res)
    /\ cur' = NoCur

\* c.SubscribeDir(dir), the first statement of StartShell: the watch is set
\* up or notify.Watch fails, and the error it returns is not looked at.
Subscribe ==
    /\ pc = "subscribe"
    /\ subscribed' \in BOOLEAN
    /\ pc' = "shell"
    /\ UNCHANGED <<config, tree, osq, events, closed, dropped, files, cur, pushv, remote,
                   history>>

\* The session, the pipes and the terminal of the interactive shell: any of
\* them failing makes StartShell return its error.
ShellSetup ==
    /\ pc = "shell"
    /\ \E ok \in BOOLEAN :
          pc' = IF ~ok THEN "returned"
                ELSE IF skipInitialSync THEN "loop" ELSE "walk"
    /\ UNCHANGED <<config, tree, watch, files, cur, pushv, remote, history>>

\* filepath.Walk over c.localDir collecting the files to sync.
Walk ==
    /\ pc = "walk"
    /\ files' = WalkFiles(localDir, RootEntry, kind)
    /\ pc' = "next"
    /\ UNCHANGED <<config, tree, watch, cur, pushv, remote, history>>

\* Whether dstPath[0] panics: an index out of range on the empty string.
IndexPanics(dstPath) == dstPath = <<>>

\* One round of "for _, f := range files": the paths of the next file.  A
\* panic of the goroutine ends the process.
NextFile ==
    /\ pc = "next"
    /\ IF files # <<>> /\ IndexPanics(TrimPrefix(Head(files), Clean(localDir)))
       THEN ProcessEnds("panic")
       ELSE /\ IF files = <<>>
               THEN pc' = "loop" /\ UNCHANGED <<files, cur>>
               ELSE /\ cur' = [phase |-> "initial", op |-> "Walk",
                               local |-> Abs(Head(files)),
                               remote |-> InitialRemotePath(Head(files), localDir)]
                    /\ files' = Tail(files)
                    /\ pc' = "sync"
            /\ UNCHANGED <<config, tree, watch, pushv, remote, history>>

\* remoteRemoveFile: "not implemented", the remote files stay as they are.
RemoteRemoveFile(rf, localPath) == rf

\* remoteRenameFile: "not implemented", the remote files stay as they are.
RemoteRenameFile(rf, localPath) == rf

\* A loop that leaves Rename events aside.
HandledNoRename(ev) == ev.op # "Rename"

\* The events the loop hands to a handler: it looks at the kind of an event
\* alone, so every event is handled.
Handled(ev) == TRUE

\* One round of "for evt := range c.events".
Receive ==
    /\ pc = "loop"
    /\ events # <<>>
    /\ events' = Tail(events)
    /\ LET ev == Head(events)
           c == [phase |-> "steady", op |-> ev.op, local |-> ev.path,
                 remote |-> SteadyRemotePath(ev.path, localDir)]
       IN IF ~Handled(ev)
          THEN UNCHANGED <<pc, cur, rfiles, history>>
          ELSE IF ev.op \in {"Create", "Write"}
          THEN /\ cur' = c
               /\ pc' = "sync"
               /\ UNCHANGED <<rfiles, history>>
          ELSE /\ rfiles' = IF ev.op = "Remove"
                            THEN RemoteRemoveFile(rfiles, ev.path)
                            ELSE RemoteRenameFile(rfiles, ev.path)
               /\ Record([c EXCEPT !.remote = <<>>], "notimpl")
               /\ UNCHANGED <<pc, cur>>
    /\ UNCHANGED <<config, tree, subscribed, osq, closed, dropped, files, pushv, rdirs,
                   faults>>

\* "for evt := range c.events" ends once the channel is closed and empty,
\* and StartShell returns nil.
LoopEnd ==
    /\ pc = "loop"
    /\ closed
    /\ events = <<>>
    /\ pc' = "finished"
    /\ UNCHANGED <<config, tree, watch, files, cur, pushv, remote, history>>

\* ----------------------------------------------------------- sync one file
\* An os.Open whose error is not looked at.
OpenNeverFails(p, k) == FALSE

\* Whether os.Open(local) returns an error: there is nothing at the path.
OpenFails(p, k) == KindAt(p, k) = "none"

\* A session that leaks: no deferred sess.Close().
SessLeak(n) == n

\* The deferred sess.Close() of runRemoteCommand and of copy: of the n
\* sessions open, one is closed when the function returns.
SessClose(n) == n - 1

\* A plain mkdir, which fails for a directory that exists.
MkdirPlainFails(dirs, d) == d \in dirs

\* Whether "mkdir -p d" fails because of the remote directories there are:
\* with -p it makes what is missing and accepts what exists.
MkdirFails(dirs, d) == FALSE

\* The remote directories after "mkdir -p d".
MkdirP(dirs, d) == dirs \cup {d}

\* The head of syncLocalFileToRemote: os.Open(local), then
\* ensureRemoteDirectory, a mkdir -p of the directory of the remote path run
\* in a session of its own.
SyncStart ==
    /\ pc = "sync"
    /\ IF OpenFails(cur.local, kind)
       THEN Finish("open") /\ UNCHANGED <<rdirs, faults, nopen>>
       ELSE /\ nopen' = SessClose(nopen + 1)
            /\ \/ /\ faults < MaxFaults
                  /\ faults' = faults + 1
                  /\ Finish("mkdir")
                  /\ UNCHANGED rdirs
               \/ /\ UNCHANGED faults
                  /\ IF MkdirFails(rdirs, Dir(cur.remote))
                     THEN Finish("mkdir") /\ UNCHANGED rdirs
                     ELSE /\ rdirs' = MkdirP(rdirs, Dir(cur.remote))
                          /\ pc' = "copy"
                          /\ UNCHANGED <<cur, history>>
    /\ UNCHANGED <<config, tree, watch, files, declared, wpc, stream, sess, rfiles>>

\* copyFromFile and the head of copy: the size is read from the open file, a
\* session is opened and the writer goroutine is started.
CopyBegin ==
    /\ pc = "copy"
    /\ \/ /\ faults < MaxFaults
          /\ faults' = faults + 1
          /\ Finish("session")
          /\ UNCHANGED pushv
       \/ /\ declared' = SizeAt(cur.local, size)
          /\ wpc' = "pipe"
          /\ stream' = NoStream
          /\ sess' = NoSess
          /\ nopen' = nopen + 1
          /\ pc' = "run"
          /\ UNCHANGED <<faults, cur, history>>
    /\ UNCHANGED <<config, tree, watch, files, rfiles, rdirs>>

\* sess.Run, first half: the command is started.  A session whose stdin pipe
\* has not been taken gets an empty stdin, which is at EOF at once.
RunStart ==
    /\ pc = "run"
    /\ sess' = [sess EXCEPT !.started = TRUE,
                            !.eof = sess.eof \/ wpc = "pipe",
                            !.rx = "running",
                            !.runs = sess.runs + 1]
    /\ pc' = "wait"
    /\ UNCHANGED <<config, tree, watch, files, cur, declared, wpc, stream, nopen, remote,
                   history>>

\* The writer goroutine: sess.StdinPipe(), which fails once the session has
\* been started.
WriterPipe ==
    /\ wpc = "pipe"
    /\ wpc' = IF sess.started THEN "done" ELSE "stream"
    /\ UNCHANGED <<config, tree, watch, consumer, declared, stream, sess, nopen, remote,
                   history>>

\* The bytes io.Copy reads from the open file at p: the file to its end, and
\* nothing from a directory.
BytesRead(p, k, sz) == IF KindAt(p, k) = "dir" THEN 0 ELSE SizeAt(p, sz)

\* What the writer writes: the header, the file to its end, one NUL.
Written(n) == [hdr |-> 1, data |-> n, nul |-> 1]

\* A writer without the deferred dst.Close().
WriterLeavesOpen == FALSE

\* Whether the deferred dst.Close() of the writer closes the session's stdin.
WriterCloses == TRUE

\* The writer goroutine: Fprintf of the header, io.Copy of the file, Fprintf
\* of the NUL and the deferred dst.Close().  Writes to a session whose command
\* has exited fail.
WriterStream ==
    /\ wpc = "stream"
    /\ stream' = IF sess.rx = "exited" THEN stream
                 ELSE Written(BytesRead(cur.local, kind, size))
    /\ sess' = [sess EXCEPT !.eof = sess.eof \/ WriterCloses]
    /\ wpc' = "done"
    /\ UNCHANGED <<config, tree, watch, consumer, declared, nopen, remote, history>>

\* Exit status of the receiver for the stream st it has read to its end, the
\* header declaring n bytes: an empty stream and a well-formed one end it
\* with status 0, anything else with status 1.
ReceiverStatus(st, n, target) ==
    IF st = NoStream THEN 0
    ELSE IF st.hdr = 1 /\ st.data = n /\ st.nul = 1 /\ target \notin rdirs THEN 0
    ELSE 1

\* The remote receiver ends: at the end of its input, or by a failure of its
\* own.
ReceiverExit ==
    /\ sess.rx = "running"
    /\ \/ /\ faults < MaxFaults
          /\ faults' = faults + 1
          /\ sess' = [sess EXCEPT !.rx = "exited", !.status = 1]
          /\ UNCHANGED rfiles
       \/ /\ sess.eof
          /\ LET target == ReceiverTarget(cur.remote)
             IN /\ sess' = [sess EXCEPT !.rx = "exited",
                              !.status = ReceiverStatus(stream, declared, target)]
                /\ rfiles' = Received(rfiles, stream, target)
          /\ UNCHANGED faults
    /\ UNCHANGED <<config, tree, watch, consumer, declared, wpc, stream, nopen, rdirs,
                   history>>

\* The error copy returns for the exit status sess.Run reports.
CopyResult(status) == IF status = 0 THEN "ok" ELSE "push"

\* sess.Run, second half: the command has exited; copy returns, the session
\* and the local file are closed.  A writer that has not finished is left
\* behind: its session and its file are closed, so what it still writes goes
\* nowhere.
CopyReturn ==
    /\ pc = "wait"
    /\ sess.rx = "exited"
    /\ Finish(CopyResult(sess.status))
    /\ wpc' = "idle"
    /\ stream' = NoStream
    /\ sess' = NoSess
    /\ nopen' = SessClose(nopen)
    /\ declared' = 0
    /\ UNCHANGED <<config, tree, watch, files, remote>>

\* main: the shell runs in a goroutine of its own and what StartShell
\* returns is not looked at; main waits for os.Interrupt and then calls
\* os.Exit(1).
Interrupt ==
    /\ Alive
    /\ ProcessEnds("exited")

\* The watcher sends an event on the closed channel: the send panics.
WatcherSendClosed ==
    /\ osq # <<>>
    /\ closed
    /\ ProcessEnds("sendpanic")

\* Whether Close stops the watch (notify.Stop) before it closes the channel.
CloseStopsWatch == FALSE

\* Close, called by the owner of the client (main defers it): close(c.events)
\* and nothing else.  Closing a closed channel panics.
Close ==
    /\ Alive
    /\ IF closed
       THEN ProcessEnds("closepanic")
       ELSE /\ closed' = TRUE
            /\ subscribed' = (subscribed /\ ~CloseStopsWatch)
            /\ UNCHANGED <<config, tree, osq, events, dropped, consumer, pushv, remote,
                           history>>

\* ---------------------------------------------------------- specification
Next ==
    \/ UserCreate
    \/ UserMkdir
    \/ UserWrite
    \/ UserRemove
    \/ UserRename
    \/ WatcherDispatch
    \/ Subscribe
    \/ ShellSetup
    \/ Walk
    \/ NextFile
    \/ Receive
    \/ SyncStart
    \/ CopyBegin
    \/ RunStart
    \/ WriterPipe
    \/ WriterStream
    \/ ReceiverExit
    \/ CopyReturn
    \/ LoopEnd
    \/ WatcherSendClosed
    \/ Close
    \/ Interrupt

Spec == Init /\ [][Next]_vars

\* The goroutines, the watcher and the remote receiver all keep running.
Fairness ==
    /\ WF_vars(WatcherDispatch \/ WatcherSendClosed)
    /\ WF_vars(Subscribe \/ ShellSetup \/ Walk \/ NextFile \/ Receive \/ SyncStart
               \/ CopyBegin \/ RunStart \/ CopyReturn \/ LoopEnd)
    /\ WF_vars(WriterPipe \/ WriterStream)
    /\ WF_vars(ReceiverExit)

FairSpec == Spec /\ Fairness
\* ----------------------------------------------------------------- claims
\* The remote path the mapping rule gives entry e: the remote root, a slash,
\* the path of e relative to the local root.
ExpectedRemote(e) == RemoteDir \o <<"/">> \o RelStr(e)

\* The entry at absolute local path p.
EntryOf(p) == CHOOSE e \in AllEntries : FsPath(e) = p

IsEntry(p) == \E e \in AllEntries : FsPath(e) = p

\* The actions that came to a push (copy was called and ran the receiver).
Pushes == {d \in done : d.res \in {"ok", "push"}}

\* The actions that made a remote action: all but a failed local open and
\* the handlers that do nothing.
RemoteActions == {d \in done : d.res \in {"mkdir", "session", "push", "ok"}}

\* C1: once the consumer has handled a Remove event for a local path and is
\* back waiting for events, the file is absent at the mapped remote path.
C1_RemoveDeletesRemote ==
    (pc = "loop" /\ last.op = "Remove")
        => ExpectedRemote(EntryOf(last.local)) \notin rfiles

\* C2: once a has been renamed to n and the consumer has handled every event
\* of the rename (two Rename events, or a Remove and a Create), none dropped
\* and nothing failing, a is absent and n is present on the remote side.
C2_RenameMovesRemote ==
    (/\ pc = "loop" /\ events = <<>> /\ osq = <<>> /\ dropped = {}
     /\ faults = 0
     /\ kind[FileA] = "none" /\ kind[FileN] = "file"
     /\ \E d \in done : d.local = FsPath(FileN) /\ d.op \in {"Rename", "Create"}
     /\ \A d \in done : d.res \in {"ok", "notimpl"})
        => /\ ExpectedRemote(FileA) \notin rfiles
           /\ ExpectedRemote(FileN) \in rfiles

\* The consumer is inside syncLocalFileToRemote.
Syncing == pc \in {"sync", "copy", "run", "wait"}

\* C3: whatever the result of a sync (a failed open, mkdir, session or push,
\* or success), when it ends, the process living on, the consumer goes on
\* with the next file of the initial walk or with the next event.
C3_FaultIsolation ==
    [][(Syncing /\ ~Syncing' /\ pc' \notin Dead)
          => pc' = IF cur.phase = "initial" THEN "next" ELSE "loop"]_vars

\* A sync failed, and after it a Write event for another file was synced
\* with success, the file being on the remote side.
C3_Witness ==
    \E d \in done :
        /\ d.phase = "steady" /\ d.op = "Write" /\ d.res = "ok" /\ d.afterFail
        /\ d.remote \in rfiles
        /\ \E f \in done : f.res \in {"mkdir", "session", "push"} /\ f.local # d.local

\* The regular files of the local tree that are not hidden.
VisibleFiles == {e \in AllEntries : KindOf(e, kind) = "file" /\ ~IsHidden(e)}

\* C4: when the initial sync is not skipped, the tree is left alone and
\* nothing fails, every regular file without a hidden name on its path is on
\* the remote side once the consumer waits for events.
C4_InitialSyncComplete ==
    (/\ ~skipInitialSync /\ pc = "loop"
     /\ changes = 0 /\ faults = 0
     /\ \A d \in done : d.res = "ok")
        => \A e \in VisibleFiles : ExpectedRemote(e) \in rfiles

\* C5: the initial sync pushes no hidden entry (a name on its path begins
\* with a dot) and no directory.
C5_InitialSyncExcludesHidden ==
    \A d \in Pushes :
        d.phase = "initial"
            => /\ ~IsHidden(EntryOf(d.local))
               /\ KindAt(d.local, kind) # "dir"

\* C6: a watch event for a hidden entry or for a directory causes no remote
\* action.
C6_SteadyFiltersHiddenAndDirs ==
    \A d \in RemoteActions :
        d.phase = "steady"
            => /\ ~IsHidden(EntryOf(d.local))
               /\ KindAt(d.local, kind) # "dir"

\* C7: every push wrote one header, as many content bytes as the size it
\* declared, and one NUL.
C7_HeaderBodyConsistent ==
    \A d \in Pushes : d.wrote = Written(d.sz)

\* C8: a push that has called sess.Run comes to its end (or the process is
\* ended meanwhile), and a push whose
\* header declared another size than the bytes that followed, or whose
\* receiver exited with a status other than 0, ends with an error.
C8_PushTerminates ==
    /\ (pc = "run") ~> (pc \in {"next", "loop"} \cup Dead)
    /\ [](\A d \in Pushes : (d.wrote.hdr = 1 /\ d.wrote.data # d.sz) => d.res = "push")
    /\ []((pc = "wait" /\ sess.rx = "exited" /\ sess.status # 0)
             => CopyResult(sess.status) = "push")

\* A push whose header declared another size than the bytes written has
\* returned its error.
C8_Witness ==
    /\ last.res = "push"
    /\ last.wrote.hdr = 1
    /\ last.wrote.data # last.sz
    /\ pc \in {"next", "loop"}

\* The syncs whose remote path has been computed: the completed ones and the
\* one in progress.
Mapped ==
    {[phase |-> d.phase, local |-> d.local, remote |-> d.remote] :
        d \in {d \in done : d.op \in {"Walk", "Create", "Write"}}}
    \cup (IF cur = NoCur THEN {}
          ELSE {[phase |-> cur.phase, local |-> cur.local, remote |-> cur.remote]})

\* C9: the remote path of every sync, of the initial walk and of a watch
\* event alike, is the remote root followed by the path of the file relative
\* to the local root.
C9_PathMapping ==
    \A m \in Mapped :
        /\ IsEntry(m.local)
        /\ m.remote = ExpectedRemote(EntryOf(m.local))

\* The same file has been mapped by the initial sync and by a watch event.
C9_Witness ==
    \E m \in Mapped : \E n \in Mapped :
        /\ m.phase = "initial" /\ n.phase = "steady"
        /\ m.local = n.local
        /\ m.remote = n.remote
        /\ localDir # fsRoot

\* C10: the watcher drops no event of a change made after the watch was set
\* up, so that each reaches the consumer loop.
C10_NoChangeLost == dropped = {}

\* A start-up step has failed in the living process: the watch could not be
\* set up, or StartShell has returned the error of the shell's session.
StartupFailed ==
    /\ Alive
    /\ pc = "returned" \/ (pc # "subscribe" /\ ~subscribed)

\* C11: once the watch could not be set up or the shell's session could not
\* be set up, the process comes to exit with a status other than 0.
C11_StartupErrorsExit == StartupFailed ~> (pc = "exited")

\* C12: every action of the initial walk or of a watch event that returned
\* an error has had that error printed by the consumer.
C12_FailuresReported == \A d \in done : d.res # "ok" => d.logged

\* C13: a Close of the client that is closed already does not crash the
\* process: the client stays as the first Close left it.
C13_CloseIdempotent == [][closed => pc' # "closepanic"]_vars

\* C14: once Close has been called no session is opened any more, and no
\* push still in progress ends with success.
C14_CloseReleases ==
    [][closed => /\ nopen' <= nopen
                 /\ (pc = "wait" /\ pc' \in {"next", "loop"}) => last'.res # "ok"]_vars

\* C15: a session of a sync action is open only while copy runs its one
\* command on it, it has run at most one command, and when the action has
\* ended, with success or with an error, no session is left open.
C15_SessionPerAction ==
    /\ nopen = IF pc \in {"run", "wait"} THEN 1 ELSE 0
    /\ sess.runs <= 1
    /\ sess.runs = 1 => pc = "wait"

\* Syncs have ended with success and with the error of a remote action, and
\* the consumer waits for events with no session open.
C15_Witness ==
    /\ pc = "loop" /\ nopen = 0
    /\ \E d \in done : d.res = "ok"
    /\ \E d \in done : d.res \in {"mkdir", "push"}

\* C16: a file of the initial walk is taken from the head of the walk's
\* list; a watch event is acted on only when the walk's list is finished and
\* no sync is in progress, it is the event at the head of the channel, and
\* every event taken from the channel is handed to its handler at once.
C16_EnqueueOrder ==
    [][/\ (cur' # cur /\ cur'.phase = "initial")
            => /\ pc = "next" /\ files # <<>>
               /\ cur'.local = Abs(Head(files))
               /\ files' = Tail(files)
       /\ (cur' # cur /\ cur'.phase = "steady")
            => /\ pc = "loop" /\ files = <<>> /\ events # <<>>
               /\ cur'.local = Head(events).path /\ cur'.op = Head(events).op
               /\ events' = Tail(events)
       /\ (Len(events') < Len(events) /\ pc' \notin Dead)
            => /\ pc = "loop" /\ files = <<>>
               /\ events' = Tail(events)
               /\ \/ cur'.local = Head(events).path /\ cur'.op = Head(events).op
                  \/ last'.local = Head(events).path /\ last'.op = Head(events).op]_vars

\* After the initial sync the two Rename events of a rename have been
\* handled, the one for the old name first.
C16_Witness ==
    /\ pc = "loop"
    /\ last.op = "Rename" /\ last.local = FsPath(FileN)
    /\ \E d \in done : d.op = "Rename" /\ d.local = FsPath(FileA)
    /\ \E d \in done : d.phase = "initial"

\* C17: whatever becomes of the set-up of the shell's session, the process
\* living on, the consumer goes on to the initial walk or to the event loop.
C17_ShellIndependent ==
    [][(pc = "shell" /\ pc' # "shell" /\ pc' \notin Dead) => pc' \in {"walk", "loop"}]_vars

C19_WriterWithinCopy ==
    [][(pc = "wait" /\ pc' \in {"next", "loop"}) => wpc = "done"]_vars

\* C20: a push that returned success has written the header, the content
\* and the NUL to the receiver.
C20_SuccessMeansWritten ==
    \A d \in Pushes : d.res = "ok" => (d.wrote.hdr = 1 /\ d.wrote.nul = 1)

\* C21: a sync comes to its push only from its ensure-directory, with the
\* local file opened and the directory of the remote path made; the session
\* of a push is opened only then; and a sync that ends with the error of the
\* open or of the ensure-directory has made no later step (no directory made
\* after a failed open, nothing pushed) and hands that error back.
C21_StepOrder ==
    /\ [][(pc' = "copy" /\ pc # "copy")
              => /\ pc = "sync"
                 /\ KindAt(cur.local, kind) # "none"
                 /\ Dir(cur.remote) \in rdirs']_vars
    /\ [][nopen' > nopen => (pc = "copy" /\ Dir(cur.remote) \in rdirs)]_vars
    /\ [][(pc = "sync" /\ pc' \in {"next", "loop"})
              => /\ last'.res \in {"open", "mkdir"}
                 /\ last'.local = cur.local
                 /\ last'.wrote = NoStream
                 /\ rfiles' = rfiles /\ rdirs' = rdirs /\ nopen' = nopen
                 /\ (KindAt(cur.local, kind) = "none" <=> last'.res = "open")]_vars

\* Syncs have ended at each step: one with the error of the open, one with
\* the error of a remote step, one with success.
C21_Witness ==
    /\ \E d \in done : d.res = "open"
    /\ \E d \in done : d.res \in {"mkdir", "session", "push"}
    /\ \E d \in done : d.res = "ok" /\ d.remote \in rfiles

\* C22: for the remote path R of every sync, the name in the header
\* (basename of R) holds no slash and joined to the directory the receiver
\* is scoped to (dirname of R) it gives R; while the push runs that directory
\* is one the ensure-directory has made; and the only remote file a step
\* creates is R of the sync in progress.
C22_PushLandsAtPath ==
    /\ [](cur # NoCur =>
             /\ \A i \in 1..Len(Base(cur.remote)) : Base(cur.remote)[i] # "/"
             /\ Join(Dir(cur.remote), Base(cur.remote)) = cur.remote)
    /\ [](pc \in {"run", "wait"} => Dir(cur.remote) \in rdirs)
    /\ [][rfiles' \subseteq rfiles \cup {cur.remote}]_vars

\* A push into a directory below the remote root has ended with success and
\* its file is at its remote path.
C22_Witness ==
    \E d \in Pushes :
        /\ d.res = "ok" /\ d.wrote.hdr = 1
        /\ d.remote \in rfiles
        /\ Dir(d.remote) # RemoteDir

\* C23: no change of the local tree made after Close makes the watcher send
\* on the closed channel.
C23_NoSendAfterClose == pc # "sendpanic"

\* C24: the initial sync does not crash: no dstPath[0] of the initial sync
\* is an index out of range, whatever the form of the local root.
C24_InitialSyncNoCrash == pc # "panic"
====
